---- MODULE Spec2Model ----
(***************************************************************************)
(* A model of the WSDL navigation layer of wsdl-rs (src/src/wsdl.rs).      *)
(*                                                                         *)
(* The library is a set of read-only accessors over a parsed XML tree.     *)
(* The tree is the variable doc: a sequence of nodes in document order,    *)
(* a node's index being its NodeId.  A caller holds one typed handle at a  *)
(* time (held) and the return value of its last call is kept in result.    *)
(* Strings that the code parses or compares (attribute values, names) are  *)
(* sequences of one-character strings; tag names and namespace URIs, which *)
(* the code only tests for equality against literals, are TLA+ strings.    *)
(***************************************************************************)
EXTENDS Integers, Sequences, FiniteSets, TLC

VARIABLES doc, held, result

vars == <<doc, held, result>>

(***************************************************************************)
(* Bounds of the explored documents.                                       *)
(***************************************************************************)
MaxRefLen == 3
MaxPortTypes == 2
MaxOps == 2
MaxBindings == 2
MaxMessages == 2
MaxChildren == 2
MaxMsgRefLen == 2
MaxWrap == 2
MaxNested == 2

(***************************************************************************)
(* Option and Result values.                                               *)
(***************************************************************************)
None == <<>>
Some(x) == <<x>>

Ok(v) == [tag |-> "Ok", val |-> v]
Err(n, e) == [tag |-> "Err", node |-> n, err |-> e]
Panic == [tag |-> "Panic"]
\* a WsErrorType that no node has been attached to yet
ErrT(e) == [tag |-> "ErrT", err |-> e]

IsOk(r) == r.tag = "Ok"
IsErr(r) == r.tag = "Err"

(***************************************************************************)
(* String literals of the source, as character sequences.                  *)
(***************************************************************************)
Str_name == <<"n", "a", "m", "e">>
Str_type == <<"t", "y", "p", "e">>
Str_binding == <<"b", "i", "n", "d", "i", "n", "g">>
Str_definitions == <<"d", "e", "f", "i", "n", "i", "t", "i", "o", "n", "s">>
Str_targetNamespace ==
    <<"t", "a", "r", "g", "e", "t", "N", "a", "m", "e", "s", "p", "a", "c", "e">>

WSDL_NS == "http://schemas.xmlsoap.org/wsdl/"
OTHER_NS == "urn:other"

(***************************************************************************)
(* The error type.                                                         *)
(***************************************************************************)
MissingAttribute(s) == [kind |-> "MissingAttribute", arg |-> s]
MissingElement(s) == [kind |-> "MissingElement", arg |-> s]
InvalidReference(s) == [kind |-> "InvalidReference", arg |-> s]
NoParentNode == [kind |-> "NoParentNode", arg |-> <<>>]

(***************************************************************************)
(* The parsed tree (roxmltree), as the accessors use it.                   *)
(***************************************************************************)
NoAttrs == [a \in {} |-> <<>>]

\* the document root: no tag, no attributes, no parent
RootNode == [parent |-> 0, ns |-> "", tag |-> "", attrs |-> NoAttrs, decls |-> NoAttrs]

Elem(p, ns, tag, attrs, decls) ==
    [parent |-> p, ns |-> ns, tag |-> tag, attrs |-> attrs, decls |-> decls]

\* an attribute map holding attribute a when v is Some value
Attr(a, v) == IF v = None THEN NoAttrs ELSE (a :> v[1])

Nodes == 1..Len(doc)

\* Node::parent, None for the root
parent(n) == IF doc[n].parent = 0 THEN None ELSE Some(doc[n].parent)

\* Node::children, in document order
children(n) == SelectSeq([i \in 1..Len(doc) |-> i], LAMBDA i : doc[i].parent = n)

\* Node::attribute
attribute(n, a) == IF a \in DOMAIN doc[n].attrs THEN Some(doc[n].attrs[a]) ELSE None

\* Node::has_tag_name((ns, tag))
has_tag_name(n, ns, tag) == doc[n].ns = ns /\ doc[n].tag = tag

\* Node::lookup_namespace_uri(Some(prefix)): the declaration of the prefix
\* on the nearest of the node and its ancestors
RECURSIVE lookup_namespace_uri(_, _)
lookup_namespace_uri(n, prefix) ==
    IF prefix \in DOMAIN doc[n].decls THEN Some(doc[n].decls[prefix])
    ELSE IF doc[n].parent = 0 THEN None
    ELSE lookup_namespace_uri(doc[n].parent, prefix)

\* Iterator::filter over a sequence of nodes
Filter(s, Test(_)) == SelectSeq(s, Test)

\* Iterator::find: the first element that passes the test
Find(s, Test(_)) ==
    LET f == SelectSeq(s, Test) IN IF f = <<>> THEN None ELSE Some(f[1])

(***************************************************************************)
(* str::contains(":") and str::split(":")                                  *)
(***************************************************************************)
Contains(s) == \E i \in 1..Len(s) : s[i] = ":"

FirstColon(s) == CHOOSE i \in 1..Len(s) : s[i] = ":" /\ \A j \in 1..(i - 1) : s[j] # ":"

RECURSIVE Split(_)
Split(s) ==
    IF ~Contains(s) THEN <<s>>
    ELSE LET i == FirstColon(s)
         IN  <<SubSeq(s, 1, i - 1)>> \o Split(SubSeq(s, i + 1, Len(s)))

(***************************************************************************)
(* split_qualified, wsdl.rs 83-102                                         *)
(***************************************************************************)
\* split_qualified taking everything after the first separator as the name
MutSplitQualifiedRest(q) ==
    IF Contains(q)
    THEN LET i == FirstColon(q)
         IN  Ok([ns |-> Some(SubSeq(q, 1, i - 1)), name |-> SubSeq(q, i + 1, Len(q))])
    ELSE Ok([ns |-> None, name |-> q])

split_qualified(q) ==
    IF Contains(q)
    THEN LET s == Split(q)
         IN  IF Len(s) < 1 THEN ErrT(InvalidReference(q))
             ELSE IF Len(s) < 2 THEN ErrT(InvalidReference(q))
             ELSE Ok([ns |-> Some(s[1]), name |-> s[2]])
    ELSE Ok([ns |-> None, name |-> q])

\* map_err(|e| WsError::new(node, e))
map_err(r, n) == IF r.tag = "ErrT" THEN Err(n, r.err) ELSE r

(***************************************************************************)
(* WsDefinitions, wsdl.rs 496-581                                          *)
(***************************************************************************)
WsDefinitions_from_node(n) ==
    IF has_tag_name(n, WSDL_NS, "definitions") THEN Ok(n)
    ELSE Err(n, MissingElement(Str_definitions))

RECURSIVE WsDefinitions_find_parent(_)
WsDefinitions_find_parent(n) ==
    IF parent(n) = None THEN Err(n, NoParentNode)
    ELSE LET p == parent(n)[1]
         IN  IF IsOk(WsDefinitions_from_node(p)) THEN Ok(p)
             ELSE WsDefinitions_find_parent(p)

\* Document::root_element: the first element child of the root
root_element == children(1)[1]

WsDefinitions_from_document ==
    LET f == Find(children(1), LAMBDA n : has_tag_name(n, WSDL_NS, "definitions"))
    IN  IF f = None THEN Err(root_element, MissingElement(Str_definitions))
        ELSE Ok(f[1])

WsDefinitions_port_types(d) ==
    Ok(Filter(children(d), LAMBDA n : has_tag_name(n, WSDL_NS, "portType")))

WsDefinitions_messages(d) ==
    Ok(Filter(children(d), LAMBDA n : has_tag_name(n, WSDL_NS, "message")))

WsDefinitions_bindings(d) ==
    Ok(Filter(children(d), LAMBDA n : has_tag_name(n, WSDL_NS, "binding")))

WsDefinitions_services(d) ==
    Ok(Filter(children(d), LAMBDA n : has_tag_name(n, WSDL_NS, "service")))

(***************************************************************************)
(* target_namespace, wsdl.rs 39-56                                         *)
(***************************************************************************)
RECURSIVE ClimbTargetNamespace(_)
ClimbTargetNamespace(nparent) ==
    IF nparent = None THEN None
    ELSE IF attribute(nparent[1], "targetNamespace") # None
         THEN attribute(nparent[1], "targetNamespace")
         ELSE ClimbTargetNamespace(parent(nparent[1]))

\* target_namespace starting the climb at the node itself
MutTargetNamespaceFromSelf(n) ==
    LET ns == ClimbTargetNamespace(Some(n))
    IN  IF ns # None THEN Ok(ns[1])
        ELSE Err(n, MissingAttribute(Str_targetNamespace))

target_namespace(n) ==
    LET ns == ClimbTargetNamespace(parent(n))
    IN  IF ns # None THEN Ok(ns[1])
        ELSE Err(n, MissingAttribute(Str_targetNamespace))

(***************************************************************************)
(* resolve_qualified, wsdl.rs 58-81                                        *)
(***************************************************************************)
\* resolve_qualified falling back to a name without a namespace when the
\* prefix is not bound
MutResolveUnboundFallback(n, q) ==
    IF Contains(q)
    THEN LET s == Split(q)
             uri == lookup_namespace_uri(n, s[1])
         IN  IF uri = None THEN Ok([ns |-> None, name |-> s[2]])
             ELSE Ok([ns |-> Some(uri[1]), name |-> s[2]])
    ELSE Ok([ns |-> None, name |-> q])

resolve_qualified(n, q) ==
    IF Contains(q)
    THEN LET s == Split(q)
         IN  IF Len(s) < 1 THEN ErrT(InvalidReference(q))
             ELSE LET uri == lookup_namespace_uri(n, s[1])
                  IN  IF uri = None THEN ErrT(InvalidReference(q))
                      ELSE IF Len(s) < 2 THEN ErrT(InvalidReference(q))
                      ELSE Ok([ns |-> Some(uri[1]), name |-> s[2]])
    ELSE Ok([ns |-> None, name |-> q])

(***************************************************************************)
(* name(), the same on every entity: wsdl.rs 123, 151, 187, 221, 333, 375, *)
(* 418, 458                                                                *)
(***************************************************************************)
name(n) ==
    IF attribute(n, "name") = None THEN Err(n, MissingAttribute(Str_name))
    ELSE Ok(attribute(n, "name")[1])

(***************************************************************************)
(* WsMessage and WsMessagePart, wsdl.rs 121-179                            *)
(***************************************************************************)
WsMessage_parts(m) == Filter(children(m), LAMBDA n : has_tag_name(n, WSDL_NS, "part"))

WsMessagePart_typename(p) ==
    LET typename == IF attribute(p, "element") # None THEN attribute(p, "element")
                    ELSE attribute(p, "type")
    IN  IF typename = None THEN Err(p, MissingAttribute(Str_type))
        ELSE map_err(resolve_qualified(p, typename[1]), p)

(***************************************************************************)
(* WsPortType, wsdl.rs 185-212                                             *)
(***************************************************************************)
WsPortType_target_namespace(pt) == target_namespace(pt)

WsPortType_operations(pt) ==
    Ok(Filter(children(pt), LAMBDA n : has_tag_name(n, WSDL_NS, "operation")))

(***************************************************************************)
(* WsPortOperation, wsdl.rs 219-325                                        *)
(***************************************************************************)
\* the message child of the definitions d that is named nm, if any
FindMessage(d, nm) ==
    Find(WsDefinitions_messages(d).val, LAMBDA n : attribute(n, "name") = Some(nm))

WsPortOperation_input(op) ==
    LET first == Find(children(op), LAMBDA n : has_tag_name(n, WSDL_NS, "input"))
        message_typename == IF first = None THEN None ELSE attribute(first[1], "message")
    IN  IF message_typename = None THEN Ok(None)
        ELSE LET sq == map_err(split_qualified(message_typename[1]), op)
             IN  IF ~IsOk(sq) THEN sq
                 ELSE LET def == WsDefinitions_find_parent(op)
                      IN  IF ~IsOk(def) THEN def
                          ELSE LET m == FindMessage(def.val, sq.val.name)
                               IN  IF m = None
                                   THEN Err(op, InvalidReference(sq.val.name))
                                   ELSE Ok(Some(m[1]))

\* Iterator::filter_map: the Some results, in order
RECURSIVE Flatten(_)
Flatten(opts) == IF opts = <<>> THEN <<>> ELSE Head(opts) \o Flatten(Tail(opts))

FilterMap(s, F(_)) == Flatten([i \in 1..Len(s) |-> F(s[i])])

\* the three filter_map stages of outputs() and faults() on one child n
ResolveChild(def, n) ==
    IF attribute(n, "name") = None \/ attribute(n, "message") = None THEN None
    ELSE LET sq == split_qualified(attribute(n, "message")[1])
         IN  IF ~IsOk(sq) THEN None
             ELSE IF ~IsOk(WsDefinitions_messages(def)) THEN None
             ELSE FindMessage(def, sq.val.name)

WsPortOperation_outputs(op) ==
    LET def == WsDefinitions_find_parent(op)
    IN  IF ~IsOk(def) THEN def
        ELSE Ok(FilterMap(
                 Filter(children(op), LAMBDA n : has_tag_name(n, WSDL_NS, "output")),
                 LAMBDA n : ResolveChild(def.val, n)))

WsPortOperation_output(op) ==
    LET outputs == WsPortOperation_outputs(op)
    IN  IF ~IsOk(outputs) THEN outputs
        ELSE IF Len(outputs.val) >= 2
             THEN (IF ~IsOk(name(op)) THEN name(op) ELSE Panic)
             ELSE Ok(IF outputs.val = <<>> THEN None ELSE Some(outputs.val[1]))

WsPortOperation_faults(op) ==
    LET def == WsDefinitions_find_parent(op)
    IN  IF ~IsOk(def) THEN def
        ELSE Ok(FilterMap(
                 Filter(children(op), LAMBDA n : has_tag_name(n, WSDL_NS, "fault")),
                 LAMBDA n : ResolveChild(def.val, n)))

WsPortOperation_fault(op) ==
    LET faults == WsPortOperation_faults(op)
    IN  IF ~IsOk(faults) THEN faults
        ELSE IF Len(faults.val) >= 2
             THEN (IF ~IsOk(name(op)) THEN name(op) ELSE Panic)
             ELSE Ok(IF faults.val = <<>> THEN None ELSE Some(faults.val[1]))

(***************************************************************************)
(* WsBinding, wsdl.rs 373-412                                              *)
(***************************************************************************)
\* port_type() without the check of the type attribute: an absent attribute
\* is read as the empty reference
MutPortTypeNoTypeCheck(b) ==
    LET port_typename == IF attribute(b, "type") = None THEN <<>> ELSE attribute(b, "type")[1]
        sq == map_err(split_qualified(port_typename), b)
    IN  IF ~IsOk(sq) THEN sq
        ELSE LET def == WsDefinitions_find_parent(b)
             IN  IF ~IsOk(def) THEN def
                 ELSE LET f == Find(WsDefinitions_port_types(def.val).val,
                                    LAMBDA n : attribute(n, "name") = Some(sq.val.name))
                      IN  IF f = None
                          THEN Err(b, InvalidReference(sq.val.name))
                          ELSE Ok(f[1])

WsBinding_port_type(b) ==
    LET port_typename == attribute(b, "type")
    IN  IF port_typename = None THEN Err(b, MissingAttribute(Str_type))
        ELSE LET sq == map_err(split_qualified(port_typename[1]), b)
             IN  IF ~IsOk(sq) THEN sq
                 ELSE LET def == WsDefinitions_find_parent(b)
                      IN  IF ~IsOk(def) THEN def
                          ELSE LET f == Find(WsDefinitions_port_types(def.val).val,
                                             LAMBDA n : attribute(n, "name") = Some(sq.val.name))
                               IN  IF f = None
                                   THEN Err(b, InvalidReference(sq.val.name))
                                   ELSE Ok(f[1])

WsBinding_operations(b) ==
    Ok(Filter(children(b), LAMBDA n : has_tag_name(n, WSDL_NS, "operation")))

(***************************************************************************)
(* WsBindingOperation, wsdl.rs 331-366                                     *)
(***************************************************************************)
\* the loop of port_operation, passing over the operations without a name
RECURSIVE MutScanSkipUnnamed(_, _, _)
MutScanSkipUnnamed(ops, nm, o) ==
    IF ops = <<>> THEN Err(o, MissingElement(nm))
    ELSE IF attribute(Head(ops), "name") = Some(nm) THEN Ok(Head(ops))
    ELSE MutScanSkipUnnamed(Tail(ops), nm, o)

\* the for loop of port_operation over the remaining operations ops
RECURSIVE ScanOperations(_, _, _)
ScanOperations(ops, nm, o) ==
    IF ops = <<>> THEN Err(o, MissingElement(nm))
    ELSE LET r == name(Head(ops))
         IN  IF ~IsOk(r) THEN r
             ELSE IF r.val = nm THEN Ok(Head(ops))
             ELSE ScanOperations(Tail(ops), nm, o)

WsBindingOperation_port_operation(o) ==
    LET nm == name(o)
    IN  IF ~IsOk(nm) THEN nm
        ELSE IF parent(o) = None THEN Err(o, NoParentNode)
        ELSE LET port_type == WsBinding_port_type(parent(o)[1])
             IN  IF ~IsOk(port_type) THEN port_type
                 ELSE ScanOperations(WsPortType_operations(port_type.val).val, nm.val, o)

(***************************************************************************)
(* WsBindingOperation::transport_operation, which src/examples/traverse.rs *)
(* calls (lines 29-42) and wsdl.rs does not define.  It is modelled from   *)
(* section 4.5 of the specification: the first child with the local name   *)
(* "operation" is the nested element, and its namespace selects the        *)
(* variant.  Errors are attached to the binding operation's node, as the   *)
(* other accessors of WsBindingOperation attach theirs.                    *)
(***************************************************************************)
SOAP_NS == "http://schemas.xmlsoap.org/wsdl/soap/"
SOAP12_NS == "http://schemas.xmlsoap.org/wsdl/soap12/"
HTTP_NS == "http://schemas.xmlsoap.org/wsdl/http/"

Str_operation == <<"o", "p", "e", "r", "a", "t", "i", "o", "n">>
Str_soapAction == <<"s", "o", "a", "p", "A", "c", "t", "i", "o", "n">>
Str_location == <<"l", "o", "c", "a", "t", "i", "o", "n">>

InvalidNamespace(ns) == [kind |-> "InvalidNamespace", arg |-> ns]
MissingNamespace == [kind |-> "MissingNamespace", arg |-> <<>>]

\* WsBindingTransportOperation
Soap(action) == [variant |-> "Soap", val |-> action]
Soap12(action) == [variant |-> "Soap12", val |-> action]
Http(location) == [variant |-> "Http", val |-> location]

\* the nested element: the first child whose local name is "operation"
nested_operation(o) == Find(children(o), LAMBDA n : doc[n].tag = "operation")

\* the attribute a of the nested element e wrapped by Variant, for the
\* binding operation o
Extract(o, e, a, str_a, Variant(_)) ==
    IF attribute(e, a) = None THEN Err(o, MissingAttribute(str_a))
    ELSE Ok(Variant(attribute(e, a)[1]))

\* the classifier choosing the variant by the attribute that is present
MutTransportByAttribute(o) ==
    LET e == nested_operation(o)
    IN  IF e = None THEN Err(o, MissingElement(Str_operation))
        ELSE IF doc[e[1]].ns = "" THEN Err(o, MissingNamespace)
        ELSE IF doc[e[1]].ns \notin {SOAP_NS, SOAP12_NS, HTTP_NS}
        THEN Err(o, InvalidNamespace(doc[e[1]].ns))
        ELSE IF attribute(e[1], "location") # None
        THEN Extract(o, e[1], "location", Str_location, Http)
        ELSE Extract(o, e[1], "soapAction", Str_soapAction, Soap)

WsBindingOperation_transport_operation(o) ==
    LET e == nested_operation(o)
    IN  IF e = None THEN Err(o, MissingElement(Str_operation))
        ELSE IF doc[e[1]].ns = "" THEN Err(o, MissingNamespace)
        ELSE IF doc[e[1]].ns = SOAP_NS
        THEN Extract(o, e[1], "soapAction", Str_soapAction, Soap)
        ELSE IF doc[e[1]].ns = SOAP12_NS
        THEN Extract(o, e[1], "soapAction", Str_soapAction, Soap12)
        ELSE IF doc[e[1]].ns = HTTP_NS
        THEN Extract(o, e[1], "location", Str_location, Http)
        ELSE Err(o, InvalidNamespace(doc[e[1]].ns))

(***************************************************************************)
(* WsServicePort and WsService, wsdl.rs 417-477                            *)
(***************************************************************************)
\* binding() returning the last binding of the name instead of the first
MutBindingLastMatch(p) ==
    LET binding_typename == attribute(p, "binding")
    IN  IF binding_typename = None THEN Err(p, MissingAttribute(Str_binding))
        ELSE LET sq == map_err(split_qualified(binding_typename[1]), p)
             IN  IF ~IsOk(sq) THEN sq
                 ELSE LET def == WsDefinitions_find_parent(p)
                      IN  IF ~IsOk(def) THEN def
                          ELSE LET f == Filter(WsDefinitions_bindings(def.val).val,
                                               LAMBDA n : attribute(n, "name") = Some(sq.val.name))
                               IN  IF f = <<>>
                                   THEN Err(p, InvalidReference(sq.val.name))
                                   ELSE Ok(f[Len(f)])

WsServicePort_binding(p) ==
    LET binding_typename == attribute(p, "binding")
    IN  IF binding_typename = None THEN Err(p, MissingAttribute(Str_binding))
        ELSE LET sq == map_err(split_qualified(binding_typename[1]), p)
             IN  IF ~IsOk(sq) THEN sq
                 ELSE LET def == WsDefinitions_find_parent(p)
                      IN  IF ~IsOk(def) THEN def
                          ELSE LET f == Find(WsDefinitions_bindings(def.val).val,
                                             LAMBDA n : attribute(n, "name") = Some(sq.val.name))
                               IN  IF f = None
                                   THEN Err(p, InvalidReference(sq.val.name))
                                   ELSE Ok(f[1])

WsService_ports(s) ==
    Ok(Filter(children(s), LAMBDA n : has_tag_name(n, WSDL_NS, "port")))

(***************************************************************************)
(* The caller: a handle is a node wrapped in an entity type, with the node *)
(* and the accessor it was obtained from.  Every action is one call of an  *)
(* accessor on the handle the caller holds; a call that yields handles     *)
(* leaves the caller holding one of them, and a call that fails leaves it  *)
(* with none (the caller returns the error, as with the ? operator).       *)
(***************************************************************************)
Handle(k, n, o, v) == [kind |-> k, node |-> n, origin |-> o, via |-> v]

NoHandle == Handle("None", 0, 0, "none")

NoResult == [op |-> "none", recv |-> NoHandle, ret |-> Ok(None)]

Returned(opname, r) == result' = [op |-> opname, recv |-> held, ret |-> r]

\* the handles a successful call hands to the caller
HoldOne(k, r, v) ==
    IF IsOk(r) THEN held' = Handle(k, r.val, held.node, v) ELSE held' = NoHandle

HoldAny(k, r, v) ==
    IF IsOk(r) /\ r.val # <<>>
    THEN \E i \in 1..Len(r.val) : held' = Handle(k, r.val[i], held.node, v)
    ELSE held' = held

\* from_document and from_node are not called on a handle
Constructed(opname, r) ==
    /\ result' = [op |-> opname, recv |-> NoHandle, ret |-> r]
    /\ held' = IF IsOk(r) THEN Handle("Definitions", r.val, 0, opname) ELSE NoHandle

FromDocument ==
    /\ Constructed("from_document", WsDefinitions_from_document)
    /\ UNCHANGED doc

FromNode ==
    \E n \in Nodes :
        /\ Constructed("from_node", WsDefinitions_from_node(n))
        /\ UNCHANGED doc

PortTypes ==
    /\ held.kind = "Definitions"
    /\ Returned("port_types", WsDefinitions_port_types(held.node))
    /\ HoldAny("PortType", WsDefinitions_port_types(held.node), "port_types")
    /\ UNCHANGED doc

Messages ==
    /\ held.kind = "Definitions"
    /\ Returned("messages", WsDefinitions_messages(held.node))
    /\ HoldAny("Message", WsDefinitions_messages(held.node), "messages")
    /\ UNCHANGED doc

Bindings ==
    /\ held.kind = "Definitions"
    /\ Returned("bindings", WsDefinitions_bindings(held.node))
    /\ HoldAny("Binding", WsDefinitions_bindings(held.node), "bindings")
    /\ UNCHANGED doc

Services ==
    /\ held.kind = "Definitions"
    /\ Returned("services", WsDefinitions_services(held.node))
    /\ HoldAny("Service", WsDefinitions_services(held.node), "services")
    /\ UNCHANGED doc

PortTypeOperations ==
    /\ held.kind = "PortType"
    /\ Returned("operations", WsPortType_operations(held.node))
    /\ HoldAny("PortOperation", WsPortType_operations(held.node), "operations")
    /\ UNCHANGED doc

PortTypeTargetNamespace ==
    /\ held.kind = "PortType"
    /\ Returned("target_namespace", WsPortType_target_namespace(held.node))
    /\ UNCHANGED <<doc, held>>

BindingPortType ==
    /\ held.kind = "Binding"
    /\ Returned("port_type", WsBinding_port_type(held.node))
    /\ HoldOne("PortType", WsBinding_port_type(held.node), "port_type")
    /\ UNCHANGED doc

BindingOperations ==
    /\ held.kind = "Binding"
    /\ Returned("binding_operations", WsBinding_operations(held.node))
    /\ HoldAny("BindingOperation", WsBinding_operations(held.node), "binding_operations")
    /\ UNCHANGED doc

BindingOperationPortOperation ==
    /\ held.kind = "BindingOperation"
    /\ Returned("port_operation", WsBindingOperation_port_operation(held.node))
    /\ HoldOne("PortOperation", WsBindingOperation_port_operation(held.node), "port_operation")
    /\ UNCHANGED doc

BindingOperationTransportOperation ==
    /\ held.kind = "BindingOperation"
    /\ Returned("transport_operation", WsBindingOperation_transport_operation(held.node))
    /\ UNCHANGED <<doc, held>>

\* the qualified-name helpers, applied to a reference string as the
\* accessors apply them to the value of a reference attribute
SplitQualified ==
    \E q \in UNION {[1..k -> {"a", ":"}] : k \in 0..MaxRefLen} :
        /\ result' = [op |-> "split_qualified", recv |-> NoHandle, arg |-> q,
                      ret |-> split_qualified(q)]
        /\ UNCHANGED <<doc, held>>

ResolveQualified ==
    \E q \in UNION {[1..k -> {"a", ":"}] : k \in 0..MaxRefLen} :
        \E n \in {i \in Nodes : has_tag_name(i, WSDL_NS, "part")} :
            /\ result' = [op |-> "resolve_qualified",
                          recv |-> Handle("MessagePart", n, 0, "parts"), arg |-> q,
                          ret |-> resolve_qualified(n, q)]
            /\ UNCHANGED <<doc, held>>

PortOperationInput ==
    /\ held.kind = "PortOperation"
    /\ Returned("input", WsPortOperation_input(held.node))
    /\ UNCHANGED <<doc, held>>

PortOperationOutput ==
    /\ held.kind = "PortOperation"
    /\ Returned("output", WsPortOperation_output(held.node))
    /\ UNCHANGED <<doc, held>>

PortOperationOutputs ==
    /\ held.kind = "PortOperation"
    /\ Returned("outputs", WsPortOperation_outputs(held.node))
    /\ UNCHANGED <<doc, held>>

PortOperationFault ==
    /\ held.kind = "PortOperation"
    /\ Returned("fault", WsPortOperation_fault(held.node))
    /\ UNCHANGED <<doc, held>>

PortOperationFaults ==
    /\ held.kind = "PortOperation"
    /\ Returned("faults", WsPortOperation_faults(held.node))
    /\ UNCHANGED <<doc, held>>

ServicePorts ==
    /\ held.kind = "Service"
    /\ Returned("ports", WsService_ports(held.node))
    /\ HoldAny("ServicePort", WsService_ports(held.node), "ports")
    /\ UNCHANGED doc

ServicePortBinding ==
    /\ held.kind = "ServicePort"
    /\ Returned("binding", WsServicePort_binding(held.node))
    /\ HoldOne("Binding", WsServicePort_binding(held.node), "binding")
    /\ UNCHANGED doc

MessageParts ==
    /\ held.kind = "Message"
    /\ Returned("parts", Ok(WsMessage_parts(held.node)))
    /\ HoldAny("MessagePart", Ok(WsMessage_parts(held.node)), "parts")
    /\ UNCHANGED doc

MessagePartTypename ==
    /\ held.kind = "MessagePart"
    /\ Returned("typename", WsMessagePart_typename(held.node))
    /\ UNCHANGED <<doc, held>>

(***************************************************************************)
(* The documents explored.                                                 *)
(***************************************************************************)
Strings(chars, maxlen) == UNION {[1..k -> chars] : k \in 0..maxlen}

SeqsUpTo(S, maxlen) == UNION {[1..k -> S] : k \in 0..maxlen}

Options(S) == {None} \cup {Some(x) : x \in S}

RefChars == {"a", ":"}

\* the values of a reference attribute
Refs == Strings(RefChars, MaxRefLen)

NameA == <<"a">>
NameB == <<"b">>

NameAttr(v) == Attr("name", v)

(***************************************************************************)
(* Documents of bindings and port types:                                   *)
(*   definitions [portType [operation]*]* binding [operation]              *)
(* foreign adds elements with the same local names in another namespace.   *)
(***************************************************************************)
ForeignOp(p) == Elem(p, OTHER_NS, "operation", NameAttr(Some(NameA)), NoAttrs)

PortTypeNodes(base, foreign, pt) ==
    <<Elem(2, WSDL_NS, "portType", NameAttr(pt.name), NoAttrs)>>
    \o (IF foreign THEN <<ForeignOp(base + 1)>> ELSE <<>>)
    \o [i \in 1..Len(pt.ops) |->
            Elem(base + 1, WSDL_NS, "operation", NameAttr(pt.ops[i]), NoAttrs)]

RECURSIVE AddPortTypes(_, _, _)
AddPortTypes(d, foreign, pts) ==
    IF pts = <<>> THEN d
    ELSE AddPortTypes(d \o PortTypeNodes(Len(d), foreign, Head(pts)), foreign, Tail(pts))

BindingDoc(foreign, pts, typ, bop) ==
    LET top == <<RootNode, Elem(1, WSDL_NS, "definitions", NoAttrs, NoAttrs)>>
        fpt == IF foreign
               THEN <<Elem(2, OTHER_NS, "portType", NameAttr(Some(NameA)), NoAttrs),
                      Elem(3, WSDL_NS, "operation", NameAttr(Some(NameA)), NoAttrs)>>
               ELSE <<>>
        d == AddPortTypes(top \o fpt, foreign, pts)
        b == Len(d) + 1
    IN  d \o <<Elem(2, WSDL_NS, "binding", NameAttr(Some(NameB)) @@ Attr("type", typ), NoAttrs)>>
          \o (IF foreign THEN <<ForeignOp(b)>> ELSE <<>>)
          \o <<Elem(b, WSDL_NS, "operation", NameAttr(bop), NoAttrs)>>

\* several port types, named a or not, each without operation or with one
\* operation, named a or not
PortTypeDocs(d) ==
    \E f \in BOOLEAN, typ \in Options(Refs),
       pts \in SeqsUpTo([name : Options({NameA}), ops : {<<>>, <<None>>, <<Some(NameA)>>}],
                        MaxPortTypes) :
        d = BindingDoc(f, pts, typ, Some(NameA))

\* one port type named a whose operations are named a, b or not at all,
\* and a binding operation named a, b or not at all
PortOperationDocs(d) ==
    \E f \in BOOLEAN, typ \in Options(Refs), bop \in Options({NameA, NameB}),
       pt \in [name : {Some(NameA)}, ops : SeqsUpTo(Options({NameA, NameB}), MaxOps)] :
        d = BindingDoc(f, <<pt>>, typ, bop)

InitBinding ==
    /\ PortTypeDocs(doc) \/ PortOperationDocs(doc)
    /\ held = NoHandle
    /\ result = NoResult

NextBinding ==
    \/ FromDocument
    \/ Bindings
    \/ PortTypeOperations
    \/ BindingPortType
    \/ BindingOperations
    \/ BindingOperationPortOperation

SpecBinding == InitBinding /\ [][NextBinding]_vars

(***************************************************************************)
(* Documents of services and bindings:                                     *)
(*   definitions [binding]* service [port]                                 *)
(* A binding is named a, aa or not at all, or is a binding element named a *)
(* of another namespace.                                                   *)
(***************************************************************************)
BindingDescs ==
    [ns : {WSDL_NS}, name : Options({<<"a">>, <<"a", "a">>})]
    \cup [ns : {OTHER_NS}, name : {Some(<<"a">>)}]

ServiceDoc(foreign, bs, ref) ==
    LET top == <<RootNode, Elem(1, WSDL_NS, "definitions", NoAttrs, NoAttrs)>>
        d == top \o [i \in 1..Len(bs) |->
                        Elem(2, bs[i].ns, "binding", NameAttr(bs[i].name), NoAttrs)]
        sv == Len(d) + 1
    IN  d \o <<Elem(2, WSDL_NS, "service", NameAttr(Some(NameA)), NoAttrs)>>
          \o (IF foreign
              THEN <<Elem(sv, OTHER_NS, "port", NameAttr(Some(NameA)), NoAttrs)>>
              ELSE <<>>)
          \o <<Elem(sv, WSDL_NS, "port", NameAttr(Some(NameA)) @@ Attr("binding", ref), NoAttrs)>>

InitService ==
    /\ \E f \in BOOLEAN, bs \in SeqsUpTo(BindingDescs, MaxBindings), ref \in Options(Refs) :
           doc = ServiceDoc(f, bs, ref)
    /\ held = NoHandle
    /\ result = NoResult

NextService ==
    \/ FromDocument
    \/ Bindings
    \/ Services
    \/ ServicePorts
    \/ ServicePortBinding

SpecService == InitService /\ [][NextService]_vars

(***************************************************************************)
(* Documents of nested scopes:                                             *)
(*   [wrapper]* definitions (portType | message part)                      *)
(* A wrapper or a definitions has a targetNamespace attribute or not, and  *)
(* declares the prefix a or not; the value and the URI tell the depth.     *)
(***************************************************************************)
\* the targetNamespace value and the namespace URI declared at depth i
TnsAt(i) == [k \in 1..i |-> "u"]
UriAt(i) == <<"urn", i>>
TnsOwn == <<"w">>

\* a declaration xmlns:a="uri" when declared
Decl(declared, uri) == IF declared THEN (<<"a">> :> uri) ELSE NoAttrs

\* a level is a wrapper or the definitions: tns, decl tell whether it has a
\* targetNamespace attribute and whether it declares the prefix a
LevelAttrs(l, i) == Attr("targetNamespace", IF l.tns THEN Some(TnsAt(i)) ELSE None)

RECURSIVE AddWrappers(_, _)
AddWrappers(d, levels) ==
    IF levels = <<>> THEN d
    ELSE AddWrappers(
             Append(d, Elem(Len(d), OTHER_NS, "wrapper",
                            LevelAttrs(Head(levels), Len(d)), Decl(Head(levels).decl, UriAt(Len(d))))),
             Tail(levels))

\* the wrappers and the definitions of the levels, the definitions last
ScopeTop(levels) ==
    LET w == AddWrappers(<<RootNode>>, SubSeq(levels, 1, Len(levels) - 1))
        def == levels[Len(levels)]
    IN  Append(w, Elem(Len(w), WSDL_NS, "definitions",
                       LevelAttrs(def, Len(w)), Decl(def.decl, UriAt(Len(w)))))

LevelSeqs(L) == UNION {[1..k -> L] : k \in 1..(MaxWrap + 1)}

\* a portType, with a targetNamespace attribute of its own or not
TargetNamespaceDoc(levels, own) ==
    LET d == ScopeTop(levels)
    IN  Append(d, Elem(Len(d), WSDL_NS, "portType",
                       NameAttr(Some(NameA)) @@ Attr("targetNamespace", own), NoAttrs))

TargetNamespaceDocs(d) ==
    \E levels \in LevelSeqs([tns : BOOLEAN, decl : {FALSE}]), own \in Options({TnsOwn}) :
        d = TargetNamespaceDoc(levels, own)

\* a message with one part, whose element and type attributes are references
PrefixDoc(levels, own, element, type) ==
    LET d == ScopeTop(levels)
        m == Len(d) + 1
    IN  d \o <<Elem(Len(d), WSDL_NS, "message", NameAttr(Some(NameA)), NoAttrs),
               Elem(m, WSDL_NS, "part",
                    NameAttr(Some(NameA)) @@ Attr("element", element) @@ Attr("type", type),
                    Decl(own, UriAt(m + 1)))>>

PrefixDocs(d) ==
    \E levels \in LevelSeqs([tns : {FALSE}, decl : BOOLEAN]), own \in BOOLEAN,
       element \in Options(Refs), type \in Options({<<"a", ":", "a", "a">>}) :
        d = PrefixDoc(levels, own, element, type)

InitScope ==
    /\ TargetNamespaceDocs(doc) \/ PrefixDocs(doc)
    /\ held = NoHandle
    /\ result = NoResult

NextScope ==
    \/ FromDocument
    \/ FromNode
    \/ PortTypes
    \/ PortTypeTargetNamespace
    \/ Messages
    \/ MessageParts
    \/ MessagePartTypename

SpecScope == InitScope /\ [][NextScope]_vars

(***************************************************************************)
(* Documents of messages and one port operation:                           *)
(*   definitions [message]* portType operation [input | output | fault]*   *)
(* The messages are named a or aa; an input, output or fault child has a   *)
(* message attribute or not, and an output or fault child a name or not.   *)
(***************************************************************************)
NameAA == <<"a", "a">>

MsgRefs == Strings(RefChars, MaxMsgRefLen)

ChildDescs ==
    [tag : {"input"}, name : {None}, message : Options(MsgRefs)]
    \cup [tag : {"output", "fault"}, name : Options({NameA}), message : Options(MsgRefs)]

MessageDoc(msgs, opname, kids) ==
    LET top == <<RootNode, Elem(1, WSDL_NS, "definitions", NoAttrs, NoAttrs)>>
        d == top \o [i \in 1..Len(msgs) |->
                        Elem(2, WSDL_NS, "message", NameAttr(Some(msgs[i])), NoAttrs)]
        pt == Len(d) + 1
    IN  d \o <<Elem(2, WSDL_NS, "portType", NameAttr(Some(NameA)), NoAttrs),
               Elem(pt, WSDL_NS, "operation", NameAttr(opname), NoAttrs)>>
          \o [i \in 1..Len(kids) |->
                 Elem(pt + 1, WSDL_NS, kids[i].tag,
                      NameAttr(kids[i].name) @@ Attr("message", kids[i].message), NoAttrs)]

InitMessages ==
    /\ \E msgs \in SeqsUpTo({NameA, NameAA}, MaxMessages), opname \in Options({NameA}),
          kids \in SeqsUpTo(ChildDescs, MaxChildren) :
           doc = MessageDoc(msgs, opname, kids)
    /\ held = NoHandle
    /\ result = NoResult

NextMessages ==
    \/ FromDocument
    \/ PortTypes
    \/ PortTypeOperations
    \/ PortOperationInput
    \/ PortOperationOutput
    \/ PortOperationOutputs
    \/ PortOperationFault
    \/ PortOperationFaults

SpecMessages == InitMessages /\ [][NextMessages]_vars

(***************************************************************************)
(* Documents of binding operations and their nested elements:              *)
(*   definitions binding operation [nested]*                               *)
(* A nested element is an "operation" in one of the transport namespaces,  *)
(* in another namespace or in none, with or without soapAction and         *)
(* location, or a soap:body.                                               *)
(***************************************************************************)
NestedAttrs ==
    {[soapAction |-> None, location |-> None],
     [soapAction |-> Some(NameA), location |-> None],
     [soapAction |-> Some(NameB), location |-> None],
     [soapAction |-> None, location |-> Some(NameA)],
     [soapAction |-> Some(NameA), location |-> Some(NameB)]}

NestedDescs ==
    {[ns |-> ns, tag |-> "operation", at |-> at] :
        ns \in {SOAP_NS, SOAP12_NS, HTTP_NS, OTHER_NS, ""}, at \in NestedAttrs}
    \cup {[ns |-> SOAP_NS, tag |-> "body", at |-> [soapAction |-> Some(NameA), location |-> None]]}

TransportDoc(kids) ==
    <<RootNode,
      Elem(1, WSDL_NS, "definitions", NoAttrs, NoAttrs),
      Elem(2, WSDL_NS, "binding", NameAttr(Some(NameB)), NoAttrs),
      Elem(3, WSDL_NS, "operation", NameAttr(Some(NameA)), NoAttrs)>>
    \o [i \in 1..Len(kids) |->
            Elem(4, kids[i].ns, kids[i].tag,
                 Attr("soapAction", kids[i].at.soapAction)
                     @@ Attr("location", kids[i].at.location),
                 NoAttrs)]

InitTransport ==
    /\ \E kids \in SeqsUpTo(NestedDescs, MaxNested) : doc = TransportDoc(kids)
    /\ held = NoHandle
    /\ result = NoResult

NextTransport ==
    \/ FromDocument
    \/ Bindings
    \/ BindingOperations
    \/ BindingOperationTransportOperation

SpecTransport == InitTransport /\ [][NextTransport]_vars

(***************************************************************************)
(* The qualified-name helpers on their own: the documents are those of a   *)
(* message part under nested scopes that declare the prefix a or not, and  *)
(* the reference strings are all the strings over a and the separator.     *)
(***************************************************************************)
InitQualified ==
    /\ \E levels \in LevelSeqs([tns : {FALSE}, decl : BOOLEAN]), own \in BOOLEAN :
            doc = PrefixDoc(levels, own, None, None)
    /\ held = NoHandle
    /\ result = NoResult

NextQualified ==
    \/ SplitQualified
    \/ ResolveQualified

SpecQualified == InitQualified /\ [][NextQualified]_vars

(***************************************************************************)
(* What the documents contain, stated on the tree without the accessors.   *)
(***************************************************************************)
Min(S) == CHOOSE x \in S : \A y \in S : x <= y

Colons(s) == {i \in 1..Len(s) : s[i] = ":"}

\* the part of s after its first separator, s itself when it has none
AfterSeparator(s) ==
    IF Colons(s) = {} THEN s ELSE SubSeq(s, Min(Colons(s)) + 1, Len(s))

\* the part of s between its first and its second separator (to the end of
\* s when it has one separator), s itself when it has none
SecondSegment(s) ==
    LET r == AfterSeparator(s)
    IN  IF Colons(r) = {} THEN r ELSE SubSeq(r, 1, Min(Colons(r)) - 1)

\* the WSDL child elements of node p with the given tag
ChildElements(p, tag) ==
    {i \in Nodes : doc[i].parent = p /\ doc[i].ns = WSDL_NS /\ doc[i].tag = tag}

HasAttr(n, a) == a \in DOMAIN doc[n].attrs

\* the nodes of S whose name attribute is nm
Named(S, nm) == {i \in S : HasAttr(i, "name") /\ doc[i].attrs["name"] = nm}

\* the operation names asked about
AskedNames == {NameA, NameB}

\* the last call returned a sequence holding an operation named nm
YieldsOperationNamed(nm) ==
    /\ IsOk(result.ret)
    /\ \E i \in 1..Len(result.ret.val) :
           /\ HasAttr(result.ret.val[i], "name")
           /\ doc[result.ret.val[i]].attrs["name"] = nm

\* the last call was operations() on the port type that port_type() returned
AfterPortTypeOperations == result.op = "operations" /\ result.recv.via = "port_type"

\* the last call was port_type() on a binding with a type attribute
AfterPortType == result.op = "port_type" /\ HasAttr(result.recv.node, "type")

(***************************************************************************)
(* C1, as stated: port_type() then operations() yields an operation named  *)
(* N exactly when some portType child of the binding's definitions is      *)
(* named by the part of the type attribute after the prefix separator and  *)
(* has an operation child named N; when no portType child has that name,   *)
(* port_type() fails with InvalidReference(that part) on the binding.      *)
(***************************************************************************)
C1_AsStated ==
    /\ AfterPortTypeOperations =>
         LET B == result.recv.origin
             local == AfterSeparator(doc[B].attrs["type"])
         IN  \A N \in AskedNames :
                 YieldsOperationNamed(N) <=>
                     \E pt \in Named(ChildElements(doc[B].parent, "portType"), local) :
                         Named(ChildElements(pt, "operation"), N) # {}
    /\ AfterPortType =>
         LET B == result.recv.node
             local == AfterSeparator(doc[B].attrs["type"])
             pts == Named(ChildElements(doc[B].parent, "portType"), local)
         IN  /\ pts = {} => result.ret = Err(B, InvalidReference(local))
             /\ ~IsOk(result.ret) =>
                    \A N \in AskedNames, pt \in pts :
                        Named(ChildElements(pt, "operation"), N) = {}

(***************************************************************************)
(* C1, amended: port_type() then operations() yields an operation named N  *)
(* exactly when the first portType child of the binding's definitions      *)
(* whose name is the second colon-separated segment of the type attribute  *)
(* (the whole attribute when it has no colon) has an operation child named *)
(* N; when no portType child has that name, port_type() fails with         *)
(* InvalidReference(that segment) on the binding.                          *)
(***************************************************************************)
C1_PortTypeOperations ==
    /\ AfterPortTypeOperations =>
         LET B == result.recv.origin
             local == SecondSegment(doc[B].attrs["type"])
             pts == Named(ChildElements(doc[B].parent, "portType"), local)
         IN  \A N \in AskedNames :
                 YieldsOperationNamed(N) <=>
                     (pts # {} /\ Named(ChildElements(Min(pts), "operation"), N) # {})
    /\ AfterPortType =>
         LET B == result.recv.node
             local == SecondSegment(doc[B].attrs["type"])
             pts == Named(ChildElements(doc[B].parent, "portType"), local)
         IN  /\ pts = {} => result.ret = Err(B, InvalidReference(local))
             /\ pts # {} => result.ret = Ok(Min(pts))

\* a prefixed type attribute resolved to a port type, not the first portType
\* child, whose operations include one named a
C1_Witness ==
    /\ AfterPortTypeOperations
    /\ doc[result.recv.origin].attrs["type"] = <<"a", ":", "a">>
    /\ YieldsOperationNamed(NameA)
    /\ \E pt \in ChildElements(doc[result.recv.origin].parent, "portType") :
           pt < result.recv.node

(***************************************************************************)
(* C10: port_type() on a binding without a type attribute fails with       *)
(* MissingAttribute("type") on the binding, whatever portTypes there are.  *)
(***************************************************************************)
C10_MissingType ==
    (result.op = "port_type" /\ ~HasAttr(result.recv.node, "type")) =>
        result.ret = Err(result.recv.node, MissingAttribute(Str_type))

\* port_type() was called on a binding without a type attribute in a
\* definitions that has a portType named a
C10_Witness ==
    /\ result.op = "port_type"
    /\ ~HasAttr(result.recv.node, "type")
    /\ Named(ChildElements(doc[result.recv.node].parent, "portType"), NameA) # {}

\* the port type that the type attribute of binding B names, if any
ResolvedPortType(B) ==
    IF ~HasAttr(B, "type") THEN None
    ELSE LET pts == Named(ChildElements(doc[B].parent, "portType"),
                          SecondSegment(doc[B].attrs["type"]))
         IN  IF pts = {} THEN None ELSE Some(Min(pts))

\* the last call was port_operation() on a named binding operation whose
\* binding resolves to a port type
AfterPortOperation ==
    /\ result.op = "port_operation"
    /\ HasAttr(result.recv.node, "name")
    /\ ResolvedPortType(doc[result.recv.node].parent) # None

(***************************************************************************)
(* C7, as stated: port_operation() on a binding operation O named N whose  *)
(* binding resolves to port type T returns the first operation child of T  *)
(* named N, and fails with MissingElement(N) on O exactly when T has no    *)
(* operation child named N.                                                *)
(***************************************************************************)
C7_AsStated ==
    AfterPortOperation =>
        LET O == result.recv.node
            N == doc[O].attrs["name"]
            T == ResolvedPortType(doc[O].parent)[1]
            matches == Named(ChildElements(T, "operation"), N)
        IN  IF matches = {} THEN result.ret = Err(O, MissingElement(N))
            ELSE result.ret = Ok(Min(matches))

(***************************************************************************)
(* C7, amended: as stated when every operation child of T before the first *)
(* one named N (every operation child, when none is named N) has a name    *)
(* attribute; otherwise port_operation() fails with                        *)
(* MissingAttribute("name") on the first such operation without a name.    *)
(***************************************************************************)
C7_PortOperation ==
    AfterPortOperation =>
        LET O == result.recv.node
            N == doc[O].attrs["name"]
            T == ResolvedPortType(doc[O].parent)[1]
            ops == ChildElements(T, "operation")
            matches == Named(ops, N)
            unnamed == {i \in ops : ~HasAttr(i, "name") /\ \A m \in matches : i < m}
        IN  IF unnamed # {} THEN result.ret = Err(Min(unnamed), MissingAttribute(Str_name))
            ELSE IF matches = {} THEN result.ret = Err(O, MissingElement(N))
            ELSE result.ret = Ok(Min(matches))

\* port_operation() returned an operation that follows an operation of
\* another name in its port type
C7_Witness ==
    /\ AfterPortOperation
    /\ IsOk(result.ret)
    /\ \E i \in ChildElements(doc[result.ret.val].parent, "operation") :
           i < result.ret.val /\ HasAttr(i, "name")

(***************************************************************************)
(* C6: binding() on a service port P with a binding attribute returns the  *)
(* first binding child of the definitions whose name is the local name of  *)
(* the attribute, and fails with InvalidReference(that name) on P when no  *)
(* binding child has that name.                                            *)
(***************************************************************************)
C6_ServicePortBinding ==
    (result.op = "binding" /\ HasAttr(result.recv.node, "binding")) =>
        LET P == result.recv.node
            D == doc[doc[P].parent].parent
            local == SecondSegment(doc[P].attrs["binding"])
            bs == Named(ChildElements(D, "binding"), local)
        IN  IF bs = {} THEN result.ret = Err(P, InvalidReference(local))
            ELSE result.ret = Ok(Min(bs))

\* binding() resolved a prefixed reference in a definitions that has two
\* bindings of that name
C6_Witness ==
    /\ result.op = "binding"
    /\ IsOk(result.ret)
    /\ doc[result.recv.node].attrs["binding"] = <<"a", ":", "a">>
    /\ Cardinality(Named(ChildElements(2, "binding"), NameA)) = 2

(***************************************************************************)
(* C8: target_namespace() on a portType returns the targetNamespace        *)
(* attribute of the nearest ancestor that has one, and fails with          *)
(* MissingAttribute("targetNamespace") on the portType itself when no      *)
(* ancestor has one.                                                       *)
(***************************************************************************)
RECURSIVE Ancestors(_)
Ancestors(n) ==
    IF doc[n].parent = 0 THEN {} ELSE {doc[n].parent} \cup Ancestors(doc[n].parent)

\* the node of S, a set of nodes on one path to the root, farthest from the root
Nearest(S) == CHOOSE a \in S : \A b \in S \ {a} : b \in Ancestors(a)

C8_TargetNamespace ==
    result.op = "target_namespace" =>
        LET P == result.recv.node
            declaring == {i \in Ancestors(P) : HasAttr(i, "targetNamespace")}
        IN  IF declaring = {}
            THEN result.ret = Err(P, MissingAttribute(Str_targetNamespace))
            ELSE result.ret = Ok(doc[Nearest(declaring)].attrs["targetNamespace"])

\* target_namespace() returned the attribute of an ancestor above the
\* parent, below another ancestor that declares another value, on a
\* portType that has a targetNamespace attribute of its own
C8_Witness ==
    /\ result.op = "target_namespace"
    /\ IsOk(result.ret)
    /\ HasAttr(result.recv.node, "targetNamespace")
    /\ ~HasAttr(doc[result.recv.node].parent, "targetNamespace")
    /\ \E i \in Ancestors(result.recv.node) :
           /\ HasAttr(i, "targetNamespace")
           /\ doc[i].attrs["targetNamespace"] # result.ret.val

(***************************************************************************)
(* C9: typename() on a part whose element-or-type attribute is p:L returns *)
(* (U, L) when p is bound to U in the scope of the part, and fails with    *)
(* InvalidReference when p is not bound there.                             *)
(***************************************************************************)
\* the attribute typename() resolves
TypenameAttr(P) ==
    IF HasAttr(P, "element") THEN doc[P].attrs["element"] ELSE doc[P].attrs["type"]

\* the last call was typename() on a part whose reference has the form p:L
AfterTypename ==
    /\ result.op = "typename"
    /\ (HasAttr(result.recv.node, "element") \/ HasAttr(result.recv.node, "type"))
    /\ Cardinality(Colons(TypenameAttr(result.recv.node))) = 1

C9_ResolveQualified ==
    AfterTypename =>
        LET P == result.recv.node
            q == TypenameAttr(P)
            c == Min(Colons(q))
            p == SubSeq(q, 1, c - 1)
            L == SubSeq(q, c + 1, Len(q))
            binders == {i \in {P} \cup Ancestors(P) : p \in DOMAIN doc[i].decls}
        IN  IF binders = {}
            THEN IsErr(result.ret) /\ result.ret.err.kind = "InvalidReference"
            ELSE result.ret = Ok([ns |-> Some(doc[Nearest(binders)].decls[p]), name |-> L])

\* typename() resolved a prefix that two enclosing scopes bind differently
C9_Witness ==
    /\ AfterTypename
    /\ IsOk(result.ret)
    /\ result.ret.val.name = NameA
    /\ \E i \in Ancestors(result.recv.node) :
           /\ NameA \in DOMAIN doc[i].decls
           /\ Some(doc[i].decls[NameA]) # result.ret.val.ns

(***************************************************************************)
(* The message references of a port operation.                             *)
(***************************************************************************)
\* the elements of a set of nodes, in document order
RECURSIVE InOrder(_)
InOrder(S) == IF S = {} THEN <<>> ELSE <<Min(S)>> \o InOrder(S \ {Min(S)})

\* the definitions a port operation is in: portType's parent
DefinitionsOf(op) == doc[doc[op].parent].parent

\* the messages that the message attribute of child c names
Referenced(op, c) ==
    Named(ChildElements(DefinitionsOf(op), "message"), SecondSegment(doc[c].attrs["message"]))

\* the children that an accessor reads: input, output or fault elements
ChildTag(opname) ==
    IF opname = "input" THEN "input"
    ELSE IF opname \in {"output", "outputs"} THEN "output"
    ELSE "fault"

(***************************************************************************)
(* C2, as stated: input() on an operation whose input child, and output(), *)
(* outputs(), fault() and faults() on an operation one of whose output or  *)
(* fault children, has a message reference that names no message of the    *)
(* definitions, fail with InvalidReference(that name).                     *)
(***************************************************************************)
C2_AsStated ==
    /\ result.op = "input" =>
         LET op == result.recv.node
             ins == ChildElements(op, "input")
         IN  (ins # {} /\ HasAttr(Min(ins), "message") /\ Referenced(op, Min(ins)) = {}) =>
                 result.ret = Err(op, InvalidReference(SecondSegment(doc[Min(ins)].attrs["message"])))
    /\ result.op \in {"output", "outputs", "fault", "faults"} =>
         LET op == result.recv.node
             dangling == {c \in ChildElements(op, ChildTag(result.op)) :
                              HasAttr(c, "message") /\ Referenced(op, c) = {}}
         IN  dangling # {} =>
                 \E c \in dangling :
                     result.ret = Err(op, InvalidReference(SecondSegment(doc[c].attrs["message"])))

(***************************************************************************)
(* C3, as stated: output() and fault() return an error when outputs() and  *)
(* faults() yield more than one message, and the message when they yield   *)
(* exactly one.                                                            *)
(***************************************************************************)
C3_AsStated ==
    result.op \in {"output", "fault"} =>
        LET op == result.recv.node
            all == IF result.op = "output" THEN WsPortOperation_outputs(op)
                   ELSE WsPortOperation_faults(op)
        IN  /\ Len(all.val) > 1 => IsErr(result.ret)
            /\ Len(all.val) = 1 => result.ret = Ok(Some(all.val[1]))

(***************************************************************************)
(* C4, as stated: outputs() and faults() on an operation whose output or   *)
(* fault children all have a message attribute that names a message of the *)
(* definitions yield the messages named, one per child in document order.  *)
(***************************************************************************)
C4_AsStated ==
    result.op \in {"outputs", "faults"} =>
        LET op == result.recv.node
            kids == InOrder(ChildElements(op, ChildTag(result.op)))
        IN  (\A i \in 1..Len(kids) :
                 HasAttr(kids[i], "message") /\ Referenced(op, kids[i]) # {}) =>
                result.ret = Ok([i \in 1..Len(kids) |-> Min(Referenced(op, kids[i]))])

(***************************************************************************)
(* C5, as stated: input(), output() and fault() return Ok(None) only on an *)
(* operation that has no input, output or fault child.                     *)
(***************************************************************************)
C5_AsStated ==
    (result.op \in {"input", "output", "fault"} /\ result.ret = Ok(None)) =>
        ChildElements(result.recv.node, ChildTag(result.op)) = {}

(***************************************************************************)
(* C11: when the nested operation element of a binding operation is in the *)
(* SOAP 1.1 namespace and has the soapAction attribute A,                  *)
(* transport_operation() returns exactly Soap(A); every variant it returns *)
(* is one of Soap, Soap12 and Http, the one that the namespace of the      *)
(* nested element selects.                                                 *)
(***************************************************************************)
AfterTransportOperation == result.op = "transport_operation"

VariantOf(ns) ==
    IF ns = SOAP_NS THEN "Soap" ELSE IF ns = SOAP12_NS THEN "Soap12"
    ELSE IF ns = HTTP_NS THEN "Http" ELSE "none"

\* the nested operation elements of the binding operation o, in document order
NestedOperations(o) == SelectSeq(children(o), LAMBDA n : doc[n].tag = "operation")

C11_TransportOperation ==
    AfterTransportOperation =>
        LET o == result.recv.node
            nested == NestedOperations(o)
        IN  /\ \A A \in {NameA, NameB} :
                (/\ nested # <<>>
                 /\ doc[nested[1]].ns = SOAP_NS
                 /\ HasAttr(nested[1], "soapAction")
                 /\ doc[nested[1]].attrs["soapAction"] = A)
                    => result.ret = Ok(Soap(A))
            /\ IsOk(result.ret) =>
                /\ result.ret.val.variant \in {"Soap", "Soap12", "Http"}
                /\ nested # <<>>
                /\ result.ret.val.variant = VariantOf(doc[nested[1]].ns)

\* a SOAP 1.1 operation with a soapAction, followed by a nested operation of
\* another transport, classified as Soap
C11_Witness ==
    /\ AfterTransportOperation
    /\ result.ret = Ok(Soap(NameA))
    /\ LET nested == NestedOperations(result.recv.node)
       IN  /\ Len(nested) >= 2
           /\ doc[nested[1]].ns = SOAP_NS
           /\ doc[nested[2]].ns \in {SOAP12_NS, HTTP_NS}
           /\ HasAttr(nested[1], "location")

(***************************************************************************)
(* C12: resolve_qualified and split_qualified fail with InvalidReference   *)
(* for every reference string that has the prefix separator and an empty   *)
(* prefix or an empty local part, and neither returns an empty local name  *)
(* or an empty prefix as a successful result.                              *)
(***************************************************************************)
AfterQualified == result.op \in {"split_qualified", "resolve_qualified"}

\* one separator, with nothing before it or nothing after it
Malformed(q) ==
    /\ Cardinality(Colons(q)) = 1
    /\ q[1] = ":" \/ q[Len(q)] = ":"

C12_AsStated ==
    AfterQualified =>
        /\ Malformed(result.arg) =>
            /\ result.ret.tag = "ErrT"
            /\ result.ret.err.kind = "InvalidReference"
        /\ (Contains(result.arg) /\ IsOk(result.ret)) =>
            /\ result.ret.val.name # <<>>
            /\ result.ret.val.ns # Some(<<>>)

====
